---- MODULE Spec2Model ----
(***************************************************************************)
(* A model of restore (src/main.rs): the natural-order comparator, the     *)
(* archive locator, the path normalizer and the extraction loop.           *)
(* Strings are sequences of byte values, as the code works on as_bytes().  *)
(***************************************************************************)
EXTENDS Integers, Sequences, FiniteSets, TLC

\* ------------------------------------------------------------------ bounds
\* longest generated string compared pairwise
MaxLen == 3
\* longest generated string compared in triples
MaxLen3 == 2
\* longest generated raw entry name
MaxNameLen == 4
\* most archives under the source root
MaxArchives == 3
\* entries in each archive's index
MaxEntries == 2
\* most recoverable failures the environment injects in one run
MaxFailures == 2

\* ------------------------------------------------------------- byte helpers
\* u8::is_ascii_digit
IsAsciiDigit(c) == c >= 48 /\ c <= 57

\* u8::is_ascii_alphabetic
IsAsciiAlphabetic(c) == (c >= 65 /\ c <= 90) \/ (c >= 97 /\ c <= 122)

\* u8::to_ascii_lowercase
ToAsciiLowercase(c) == IF c >= 65 /\ c <= 90 THEN c + 32 ELSE c

\* Ordering of two integers (usize::cmp, u8::cmp)
CmpInt(x, y) == IF x < y THEN "Less" ELSE IF x > y THEN "Greater" ELSE "Equal"

RECURSIVE CmpStr(_, _)
\* str::cmp: lexicographic comparison of the bytes
CmpStr(x, y) ==
    IF x = <<>> \/ y = <<>> THEN CmpInt(Len(x), Len(y))
    ELSE IF Head(x) # Head(y) THEN CmpInt(Head(x), Head(y))
    ELSE CmpStr(Tail(x), Tail(y))

RECURSIVE DigitRunEnd(_, _)
\* while ai < ab.len() && ab[ai].is_ascii_digit() { ai += 1 }  (1-based index)
DigitRunEnd(s, i) ==
    IF i <= Len(s) /\ IsAsciiDigit(s[i]) THEN DigitRunEnd(s, i + 1) ELSE i

RECURSIVE TrimStartZeros(_)
\* str::trim_start_matches('0')
TrimStartZeros(r) ==
    IF r # <<>> /\ Head(r) = 48 THEN TrimStartZeros(Tail(r)) ELSE r

\* CompareRuns on the runs as written, leading zeros included
CompareRunsNoTrim(a_run, b_run) ==
    IF Len(a_run) # Len(b_run) THEN CmpInt(Len(a_run), Len(b_run))
    ELSE CmpStr(a_run, b_run)

\* The comparison of two digit runs: the stripped length, then the stripped
\* digits, then the length of the whole run.
CompareRuns(a_run, b_run) ==
    LET a_trim == TrimStartZeros(a_run)
        b_trim == TrimStartZeros(b_run)
    IN  IF Len(a_trim) # Len(b_trim) THEN CmpInt(Len(a_trim), Len(b_trim))
        ELSE IF CmpStr(a_trim, b_trim) # "Equal" THEN CmpStr(a_trim, b_trim)
        ELSE CmpInt(Len(a_run), Len(b_run))

RECURSIVE cmp_loop_fold_left(_, _, _, _)
\* cmp_loop with the case fold applied to a's byte only
cmp_loop_fold_left(a, b, ai, bi) ==
    IF ai <= Len(a) /\ bi <= Len(b) THEN
        IF IsAsciiDigit(a[ai]) /\ IsAsciiDigit(b[bi]) THEN
            LET a_end == DigitRunEnd(a, ai)
                b_end == DigitRunEnd(b, bi)
                ord == CompareRuns(SubSeq(a, ai, a_end - 1), SubSeq(b, bi, b_end - 1))
            IN  IF ord # "Equal" THEN ord ELSE cmp_loop_fold_left(a, b, a_end, b_end)
        ELSE
            LET a_byte == ToAsciiLowercase(a[ai])
                b_byte == b[bi]
            IN  IF a_byte # b_byte THEN CmpInt(a_byte, b_byte)
                ELSE cmp_loop_fold_left(a, b, ai + 1, bi + 1)
    ELSE CmpInt(Len(a), Len(b))

RECURSIVE cmp_loop(_, _, _, _)
\* The while loop of cmp_natural, from positions ai, bi (1-based).
cmp_loop(a, b, ai, bi) ==
    IF ai <= Len(a) /\ bi <= Len(b) THEN
        IF IsAsciiDigit(a[ai]) /\ IsAsciiDigit(b[bi]) THEN
            LET a_end == DigitRunEnd(a, ai)
                b_end == DigitRunEnd(b, bi)
                ord == CompareRuns(SubSeq(a, ai, a_end - 1), SubSeq(b, bi, b_end - 1))
            IN  IF ord # "Equal" THEN ord ELSE cmp_loop(a, b, a_end, b_end)
        ELSE
            LET a_byte == ToAsciiLowercase(a[ai])
                b_byte == ToAsciiLowercase(b[bi])
            IN  IF a_byte # b_byte THEN CmpInt(a_byte, b_byte)
                ELSE cmp_loop(a, b, ai + 1, bi + 1)
    ELSE CmpInt(Len(a), Len(b))

cmp_natural(a, b) == cmp_loop(a, b, 1, 1)

\* ------------------------------------------------------------ normalization
\* raw_name.replace('\\', "/")
ReplaceBackslash(s) == [k \in 1..Len(s) |-> IF s[k] = 92 THEN 47 ELSE s[k]]

\* Drops a leading "C/" or "C\".
strip_drive_letter(path) ==
    IF Len(path) >= 2 /\ IsAsciiAlphabetic(path[1]) /\ (path[2] = 47 \/ path[2] = 92)
    THEN SubSeq(path, 3, Len(path))
    ELSE path

\* let raw_name = entry.name().replace('\\', "/"); let clean = strip_drive_letter(&raw_name);
Normalize(name) == strip_drive_letter(ReplaceBackslash(name))

\* dest_dir.join(clean): an absolute clean replaces the base
Join(base, p) ==
    IF p # <<>> /\ p[1] = 47 THEN p
    ELSE IF base # <<>> /\ base[Len(base)] = 47 THEN base \o p
    ELSE base \o <<47>> \o p

RECURSIVE LastSlash(_, _)
\* the position of the last '/' of p at or before k, 0 when there is none
LastSlash(p, k) == IF k = 0 THEN 0 ELSE IF p[k] = 47 THEN k ELSE LastSlash(p, k - 1)

\* Path::file_name
FileName(p) == SubSeq(p, LastSlash(p, Len(p)) + 1, Len(p))

\* Path::parent
Parent(p) ==
    LET ls == LastSlash(p, Len(p))
    IN  IF ls = 0 THEN <<>> ELSE IF ls = 1 THEN <<47>> ELSE SubSeq(p, 1, ls - 1)

RECURSIVE LastDot(_, _)
LastDot(p, k) == IF k = 0 THEN 0 ELSE IF p[k] = 46 THEN k ELSE LastDot(p, k - 1)

\* path.extension().map_or(false, |e| e.eq_ignore_ascii_case("zip"))
HasZipExtension(p) ==
    LET f == FileName(p)
        d == LastDot(f, Len(f))
        e == SubSeq(f, d + 1, Len(f))
    IN  /\ d > 1
        /\ [k \in 1..Len(e) |-> ToAsciiLowercase(e[k])] = <<122, 105, 112>>

\* ------------------------------------------------------------------ state
VARIABLES
    pc,             \* where the run is
    args,           \* the arguments of the pure function under test
    result,         \* its result
    source_files,   \* the files below the source root, at any depth
    archives,       \* path -> the index of the archive stored there
    dest_exists,    \* whether the destination root exists
    zips,           \* extract: the sorted archive paths
    i,              \* extract: position in zips (1-based)
    j,              \* extract: position in the open archive's index (1-based)
    count,          \* extract: files written from the open archive
    files_extracted,
    errors,
    files,          \* target path -> what the file there holds
    dirs,           \* the parent directories create_dir_all(parent) made sure of
    log             \* every attempt of the run, in order

runVars == <<source_files, archives, dest_exists, zips, i, j, count,
             files_extracted, errors, files, dirs, log>>
vars == <<pc, args, result, runVars>>

\* No extraction run: the state of the pure-function specifications.
NoRun ==
    /\ source_files = {} /\ archives = <<>> /\ dest_exists = FALSE
    /\ zips = <<>> /\ i = 0 /\ j = 0 /\ count = 0 /\ files_extracted = 0
    /\ errors = <<>> /\ files = <<>> /\ dirs = {} /\ log = <<>>

\* Strings of at most n bytes over the alphabet S
StringsUpTo(S, n) == UNION {[1..k -> S] : k \in 0..n}

\* '.', '0', '1', 'A', 'a'
CmpAlphabet == {46, 48, 49, 65, 97}

\* "part1", "part2", "part10", "file7", "file007", "file8"
part1 == <<112, 97, 114, 116, 49>>
part2 == <<112, 97, 114, 116, 50>>
part10 == <<112, 97, 114, 116, 49, 48>>
file7 == <<102, 105, 108, 101, 55>>
file007 == <<102, 105, 108, 101, 48, 48, 55>>
file8 == <<102, 105, 108, 101, 56>>
Examples == {part1, part2, part10, file7, file007, file8}

\* ---------------------------------------------- the comparator on two strings
InitCmp ==
    /\ pc = "call"
    /\ args \in (StringsUpTo(CmpAlphabet, MaxLen) \cup Examples)
                 \X (StringsUpTo(CmpAlphabet, MaxLen) \cup Examples)
    /\ result = <<>>
    /\ NoRun

Compare ==
    /\ pc = "call"
    /\ pc' = "returned"
    /\ result' = [ab |-> cmp_natural(args[1], args[2]),
                  ba |-> cmp_natural(args[2], args[1])]
    /\ UNCHANGED <<args, runVars>>

SpecCmp == InitCmp /\ [][Compare]_vars

\* -------------------------------------------- the comparator on three strings
InitOrder ==
    /\ pc = "call"
    /\ args \in (StringsUpTo(CmpAlphabet, MaxLen3) \cup {part1, part2, part10})
                 \X (StringsUpTo(CmpAlphabet, MaxLen3) \cup {part1, part2, part10})
                 \X (StringsUpTo(CmpAlphabet, MaxLen3) \cup {part1, part2, part10})
    /\ result = <<>>
    /\ NoRun

CompareAll ==
    /\ pc = "call"
    /\ pc' = "returned"
    /\ result' = [ab |-> cmp_natural(args[1], args[2]),
                  ba |-> cmp_natural(args[2], args[1]),
                  bc |-> cmp_natural(args[2], args[3]),
                  ac |-> cmp_natural(args[1], args[3])]
    /\ UNCHANGED <<args, runVars>>

SpecOrder == InitOrder /\ [][CompareAll]_vars

\* ------------------------------------------------- the normalizer on one name
\* 'C', '/', '\', 'x'
NameAlphabet == {67, 47, 92, 120}

\* "/d"
DestDir == <<47, 100>>
\* "/s"
SourceDir == <<47, 115>>

InitNorm ==
    /\ pc = "call"
    /\ args \in {<<n>> : n \in StringsUpTo(NameAlphabet, MaxNameLen)}
    /\ result = <<>>
    /\ NoRun

NormalizeEntry ==
    /\ pc = "call"
    /\ pc' = "returned"
    /\ result' = [clean |-> Normalize(args[1]),
                  target |-> Join(DestDir, Normalize(args[1]))]
    /\ UNCHANGED <<args, runVars>>

SpecNorm == InitNorm /\ [][NormalizeEntry]_vars

\* ------------------------------------------------------------ the locator
RECURSIVE InsertSorted(_, _)
\* x put into the sorted s, behind every element that does not compare Greater
InsertSorted(x, s) ==
    IF s = <<>> THEN <<x>>
    ELSE IF cmp_natural(x, Head(s)) = "Less" THEN <<x>> \o s
    ELSE <<Head(s)>> \o InsertSorted(x, Tail(s))

RECURSIVE sort_by(_)
\* zips.sort_by(|a, b| cmp_natural(..)): a stable sort
sort_by(s) ==
    IF s = <<>> THEN <<>>
    ELSE InsertSorted(s[Len(s)], sort_by(SubSeq(s, 1, Len(s) - 1)))

\* The orders in which read_dir may yield the files of S
Orders(S) ==
    {o \in [1..Cardinality(S) -> S] : \A x, y \in 1..Cardinality(S) : x # y => o[x] # o[y]}

\* collect_zips: the files below the root whose extension is "zip", any case
collect_zips(tree) == {f \in tree : HasZipExtension(f)}

\* --------------------------------------------------------- the source tree
\* "/s/a2.zip", "/s/a10.zip", "/s/a1.ZIP", "/s/A2.zip", then "/s/a5.zip", ...
ArchivePath(k) ==
    CASE k = 1 -> <<47, 115, 47, 97, 50, 46, 122, 105, 112>>
      [] k = 2 -> <<47, 115, 47, 97, 49, 48, 46, 122, 105, 112>>
      [] k = 3 -> <<47, 115, 47, 97, 49, 46, 90, 73, 80>>
      [] k = 4 -> <<47, 115, 47, 65, 50, 46, 122, 105, 112>>
      [] OTHER -> <<47, 115, 47, 97, 48 + (k % 10), 46, 122, 105, 112>>

\* "/s/r.txt": a file of the source tree that is no archive
OtherFile == <<47, 115, 47, 114, 46, 116, 120, 116>>

\* The raw entry names archives hold: "notes.txt", "C\notes.txt", "docs/"
\* (a directory entry), "docs\a", "C//s/x", "../s/x"
EntryPool ==
    << [name |-> <<110, 111, 116, 101, 115, 46, 116, 120, 116>>, is_dir |-> FALSE],
       [name |-> <<67, 92, 110, 111, 116, 101, 115, 46, 116, 120, 116>>, is_dir |-> FALSE],
       [name |-> <<100, 111, 99, 115, 47>>, is_dir |-> TRUE],
       [name |-> <<100, 111, 99, 115, 92, 97>>, is_dir |-> FALSE],
       [name |-> <<67, 47, 47, 115, 47, 120>>, is_dir |-> FALSE],
       [name |-> <<46, 46, 47, 115, 47, 120>>, is_dir |-> FALSE] >>

\* The index of the k-th archive: MaxEntries consecutive names of the pool,
\* from a start that moves with k and with the rotation rot
ArchiveIndex(k, rot) ==
    [e \in 1..MaxEntries |-> EntryPool[((2 * rot + (k - 1) + (e - 1)) % Len(EntryPool)) + 1]]

\* the rotations of the pool the initial states draw from
Rotations == {0, 1, 2}

\* ------------------------------------------------------- the extraction run
Init ==
    /\ pc = "locate"
    /\ args = <<SourceDir, DestDir>>
    /\ result = <<>>
    /\ \E n \in 0..MaxArchives, rot \in Rotations :
        /\ source_files = {ArchivePath(k) : k \in 1..n} \cup {OtherFile}
        /\ archives = [f \in {ArchivePath(k) : k \in 1..n} |->
                          ArchiveIndex(CHOOSE k \in 1..n : ArchivePath(k) = f, rot)]
    /\ dest_exists \in BOOLEAN
    /\ zips = <<>> /\ i = 0 /\ j = 0 /\ count = 0 /\ files_extracted = 0
    /\ errors = <<>> /\ files = <<>> /\ dirs = {} /\ log = <<>>

\* zip_path.file_name()
zip_name == FileName(zips[i])
\* archive.by_index(j)
entry == archives[zips[i]][j]
\* entry.name().replace('\\', "/") and strip_drive_letter
clean == Normalize(entry.name)
\* dest_dir.join(clean)
target == Join(args[2], clean)

\* the environment may still inject a recoverable failure
MayFail == Len(errors) < MaxFailures

\* the log with this attempt added: the archive, the entry (0 for the archive
\* itself), what came of it, and the destination path where one was computed
Logged(what) ==
    Append(log, [zi |-> i, ej |-> IF pc = "entry" THEN j ELSE 0, what |-> what,
                 target |-> IF what \in {"mkdir_err", "create_err", "write_err", "written"}
                            THEN target ELSE <<>>])

\* files with the file at t created or truncated, holding c
WithFile(t, c) == [x \in DOMAIN files \cup {t} |-> IF x = t THEN c ELSE files[x]]

\* files with the file at t created only when there was none
WithFileKeepOld(t, c) == [x \in DOMAIN files \cup {t} |-> IF x \in DOMAIN files THEN files[x] ELSE c]

\* find_zip_files(source_dir)?
FindZipFiles ==
    /\ pc = "locate"
    /\ \E o \in Orders(collect_zips(source_files)) : zips' = sort_by(o)
    /\ pc' = "check"
    /\ UNCHANGED <<args, result, source_files, archives, dest_exists, i, j, count,
                   files_extracted, errors, files, dirs, log>>

\* fs::read_dir fails somewhere below the root: the error propagates
FindZipFilesErr ==
    /\ pc = "locate"
    /\ pc' = "fatal"
    /\ UNCHANGED <<args, result, runVars>>

\* if zips.is_empty() { eprintln!(..); return Ok(()) }
NoZipFiles ==
    /\ pc = "check"
    /\ zips = <<>>
    /\ pc' = "done"
    /\ UNCHANGED <<args, result, runVars>>

\* extract without the fs::create_dir_all(dest_dir) call
CreateDestRootSkipped ==
    /\ pc = "check"
    /\ zips # <<>>
    /\ i' = 1
    /\ pc' = "archive"
    /\ UNCHANGED <<args, result, source_files, archives, dest_exists, zips, j, count,
                   files_extracted, errors, files, dirs, log>>

\* fs::create_dir_all(dest_dir)? succeeds; the loop starts at the first archive
CreateDestRoot ==
    /\ pc = "check"
    /\ zips # <<>>
    /\ dest_exists' = TRUE
    /\ i' = 1
    /\ pc' = "archive"
    /\ UNCHANGED <<args, result, source_files, archives, zips, j, count,
                   files_extracted, errors, files, dirs, log>>

\* fs::create_dir_all(dest_dir)? fails: the error propagates
CreateDestRootErr ==
    /\ pc = "check"
    /\ zips # <<>>
    /\ ~dest_exists
    /\ pc' = "fatal"
    /\ UNCHANGED <<args, result, runVars>>

\* File::open and ZipArchive::new succeed
OpenArchive ==
    /\ pc = "archive"
    /\ i <= Len(zips)
    /\ count' = 0
    /\ j' = 1
    /\ log' = Logged("opened")
    /\ pc' = "entry"
    /\ UNCHANGED <<args, result, source_files, archives, dest_exists, zips, i,
                   files_extracted, errors, files, dirs>>

\* File::open fails and the loop over the archives is left
OpenErrAbort ==
    /\ pc = "archive"
    /\ i <= Len(zips)
    /\ MayFail
    /\ errors' = Append(errors, [zip |-> zip_name, stage |-> "", detail |-> <<>>])
    /\ log' = Logged("open_err")
    /\ i' = Len(zips) + 1
    /\ UNCHANGED <<pc, args, result, source_files, archives, dest_exists, zips, j, count,
                   files_extracted, files, dirs>>

\* File::open fails: errors.push(format!("{}: {}", zip_name, e))
OpenErr ==
    /\ pc = "archive"
    /\ i <= Len(zips)
    /\ MayFail
    /\ errors' = Append(errors, [zip |-> zip_name, stage |-> "", detail |-> <<>>])
    /\ log' = Logged("open_err")
    /\ i' = i + 1
    /\ UNCHANGED <<pc, args, result, source_files, archives, dest_exists, zips, j, count,
                   files_extracted, files, dirs>>

\* ZipArchive::new fails: errors.push(format!("{}: {}", zip_name, e))
ArchiveErr ==
    /\ pc = "archive"
    /\ i <= Len(zips)
    /\ MayFail
    /\ errors' = Append(errors, [zip |-> zip_name, stage |-> "", detail |-> <<>>])
    /\ log' = Logged("index_err")
    /\ i' = i + 1
    /\ UNCHANGED <<pc, args, result, source_files, archives, dest_exists, zips, j, count,
                   files_extracted, files, dirs>>

\* archive.by_index(j) fails and the loop over the entries is left (break for continue)
EntryErrBreak ==
    /\ pc = "entry"
    /\ j <= Len(archives[zips[i]])
    /\ MayFail
    /\ errors' = Append(errors, [zip |-> zip_name, stage |-> "entry", detail |-> j])
    /\ log' = Logged("entry_err")
    /\ j' = Len(archives[zips[i]]) + 1
    /\ UNCHANGED <<pc, args, result, source_files, archives, dest_exists, zips, i, count,
                   files_extracted, files, dirs>>

\* archive.by_index(j) fails: errors.push(format!("{}: entry {}: {}", zip_name, j, e))
EntryErr ==
    /\ pc = "entry"
    /\ j <= Len(archives[zips[i]])
    /\ MayFail
    /\ errors' = Append(errors, [zip |-> zip_name, stage |-> "entry", detail |-> j])
    /\ log' = Logged("entry_err")
    /\ j' = j + 1
    /\ UNCHANGED <<pc, args, result, source_files, archives, dest_exists, zips, i, count,
                   files_extracted, files, dirs>>

\* if entry.is_dir() { continue }
SkipDir ==
    /\ pc = "entry"
    /\ j <= Len(archives[zips[i]])
    /\ entry.is_dir
    /\ log' = Logged("dir")
    /\ j' = j + 1
    /\ UNCHANGED <<pc, args, result, source_files, archives, dest_exists, zips, i, count,
                   files_extracted, errors, files, dirs>>

\* fs::create_dir_all(parent) fails
MkdirErr ==
    /\ pc = "entry"
    /\ j <= Len(archives[zips[i]])
    /\ ~entry.is_dir
    /\ MayFail
    /\ errors' = Append(errors, [zip |-> zip_name, stage |-> "mkdir", detail |-> Parent(target)])
    /\ log' = Logged("mkdir_err")
    /\ j' = j + 1
    /\ UNCHANGED <<pc, args, result, source_files, archives, dest_exists, zips, i, count,
                   files_extracted, files, dirs>>

\* fs::File::create(&target) fails
CreateErr ==
    /\ pc = "entry"
    /\ j <= Len(archives[zips[i]])
    /\ ~entry.is_dir
    /\ MayFail
    /\ dirs' = dirs \cup {Parent(target)}
    /\ errors' = Append(errors, [zip |-> zip_name, stage |-> "create", detail |-> clean])
    /\ log' = Logged("create_err")
    /\ j' = j + 1
    /\ UNCHANGED <<pc, args, result, source_files, archives, dest_exists, zips, i, count,
                   files_extracted, files>>

\* io::copy fails and the entry is counted all the same
WriteErrCounted ==
    /\ pc = "entry"
    /\ j <= Len(archives[zips[i]])
    /\ ~entry.is_dir
    /\ MayFail
    /\ dirs' = dirs \cup {Parent(target)}
    /\ files' = WithFile(target, [zip |-> zips[i], idx |-> j, complete |-> FALSE])
    /\ errors' = Append(errors, [zip |-> zip_name, stage |-> "write", detail |-> clean])
    /\ log' = Logged("write_err")
    /\ count' = count + 1
    /\ j' = j + 1
    /\ UNCHANGED <<pc, args, result, source_files, archives, dest_exists, zips, i,
                   files_extracted>>

\* the file is created (and truncated), then io::copy fails
WriteErr ==
    /\ pc = "entry"
    /\ j <= Len(archives[zips[i]])
    /\ ~entry.is_dir
    /\ MayFail
    /\ dirs' = dirs \cup {Parent(target)}
    /\ files' = WithFile(target, [zip |-> zips[i], idx |-> j, complete |-> FALSE])
    /\ errors' = Append(errors, [zip |-> zip_name, stage |-> "write", detail |-> clean])
    /\ log' = Logged("write_err")
    /\ j' = j + 1
    /\ UNCHANGED <<pc, args, result, source_files, archives, dest_exists, zips, i, count,
                   files_extracted>>

\* a write that leaves an existing destination file as it is
WriteOkKeepOld ==
    /\ pc = "entry"
    /\ j <= Len(archives[zips[i]])
    /\ ~entry.is_dir
    /\ dirs' = dirs \cup {Parent(target)}
    /\ files' = WithFileKeepOld(target, [zip |-> zips[i], idx |-> j, complete |-> TRUE])
    /\ log' = Logged("written")
    /\ count' = count + 1
    /\ j' = j + 1
    /\ UNCHANGED <<pc, args, result, source_files, archives, dest_exists, zips, i,
                   files_extracted, errors>>

\* the ancestors are made, the file is created and io::copy succeeds: count += 1
WriteOk ==
    /\ pc = "entry"
    /\ j <= Len(archives[zips[i]])
    /\ ~entry.is_dir
    /\ dirs' = dirs \cup {Parent(target)}
    /\ files' = WithFile(target, [zip |-> zips[i], idx |-> j, complete |-> TRUE])
    /\ log' = Logged("written")
    /\ count' = count + 1
    /\ j' = j + 1
    /\ UNCHANGED <<pc, args, result, source_files, archives, dest_exists, zips, i,
                   files_extracted, errors>>

\* the index is exhausted: files_extracted = count, for += count
ArchiveDoneOverwrite ==
    /\ pc = "entry"
    /\ j > Len(archives[zips[i]])
    /\ files_extracted' = count
    /\ i' = i + 1
    /\ pc' = "archive"
    /\ UNCHANGED <<args, result, source_files, archives, dest_exists, zips, j, count,
                   errors, files, dirs, log>>

\* the index is exhausted: files_extracted += count
ArchiveDone ==
    /\ pc = "entry"
    /\ j > Len(archives[zips[i]])
    /\ files_extracted' = files_extracted + count
    /\ i' = i + 1
    /\ pc' = "archive"
    /\ UNCHANGED <<args, result, source_files, archives, dest_exists, zips, j, count,
                   errors, files, dirs, log>>

\* the archives are exhausted: the summary is printed and extract returns Ok(())
Finish ==
    /\ pc = "archive"
    /\ i > Len(zips)
    /\ pc' = "done"
    /\ UNCHANGED <<args, result, runVars>>

Next ==
    \/ FindZipFiles \/ FindZipFilesErr \/ NoZipFiles
    \/ CreateDestRoot \/ CreateDestRootErr
    \/ OpenArchive \/ OpenErr \/ ArchiveErr
    \/ EntryErr \/ SkipDir \/ MkdirErr \/ CreateErr \/ WriteErr \/ WriteOk
    \/ ArchiveDone \/ Finish

Spec == Init /\ [][Next]_vars

\* One thread runs the loop to its end: a step that can be taken is taken.
LiveSpec == Init /\ [][Next]_vars /\ WF_vars(Next)

\* ------------------------------------------------------------------ claims
\* the ordering turned round
Reverse(o) == IF o = "Less" THEN "Greater" ELSE IF o = "Greater" THEN "Less" ELSE "Equal"

\* C1: cmp_natural is a consistent total order: cmp_natural(b, a) is the reverse
\* of cmp_natural(a, b), and a <= b and b <= c give a <= c, through Equal
\* results and through a digit meeting a non-digit as well.
C1_TotalOrder ==
    (pc = "returned" /\ Len(args) = 3) =>
        /\ result.ba = Reverse(result.ab)
        /\ (result.ab # "Greater" /\ result.bc # "Greater") => result.ac # "Greater"

\* "A1" < "aa" (a digit against a letter), "aa" = "Aa", and "A1" < "Aa"
C1_Witness ==
    /\ pc = "returned"
    /\ args = << <<65, 49>>, <<97, 97>>, <<65, 97>> >>
    /\ result.ab = "Less" /\ result.bc = "Equal" /\ result.ac = "Less"

RECURSIVE IntVal(_)
\* the integer a digit run denotes
IntVal(run) ==
    IF run = <<>> THEN 0 ELSE 10 * IntVal(SubSeq(run, 1, Len(run) - 1)) + (run[Len(run)] - 48)

RECURSIVE RunStart(_, _)
\* the first position of the digit run of s that holds position p
RunStart(s, p) == IF p > 1 /\ IsAsciiDigit(s[p - 1]) THEN RunStart(s, p - 1) ELSE p

\* the maximal digit run of s that holds position p
RunAt(s, p) == SubSeq(s, RunStart(s, p), DigitRunEnd(s, p) - 1)

\* a and b agree, ignoring ASCII case, before position p
AgreeBefore(a, b, p) ==
    \A k \in 1..(p - 1) : ToAsciiLowercase(a[k]) = ToAsciiLowercase(b[k])

\* C2: two strings that agree (ignoring case) up to a position where both hold
\* a digit are ordered by the integer values of the two maximal digit runs
\* there, and on equal values the run with more leading zeros sorts later.
C2_RunsByValue ==
    (pc = "returned" /\ Len(args) = 2) =>
        LET a == args[1]
            b == args[2]
            m == IF Len(a) < Len(b) THEN Len(a) ELSE Len(b)
        IN  \A p \in 1..m :
                (AgreeBefore(a, b, p) /\ IsAsciiDigit(a[p]) /\ IsAsciiDigit(b[p])) =>
                    LET ra == RunAt(a, p)
                        rb == RunAt(b, p)
                    IN  /\ IntVal(ra) < IntVal(rb) => result.ab = "Less"
                        /\ IntVal(ra) > IntVal(rb) => result.ab = "Greater"
                        /\ (IntVal(ra) = IntVal(rb) /\ Len(ra) < Len(rb)) => result.ab = "Less"
                        /\ (IntVal(ra) = IntVal(rb) /\ Len(ra) > Len(rb)) => result.ab = "Greater"

\* "file7" against "file007": equal values, the longer padding sorts later
C2_Witness ==
    /\ pc = "returned"
    /\ args = <<file7, file007>>
    /\ result.ab = "Less" /\ result.ba = "Greater"

\* a leading single ASCII letter followed by a separator
HasDrivePrefix(p) ==
    Len(p) >= 2 /\ IsAsciiAlphabetic(p[1]) /\ (p[2] = 47 \/ p[2] = 92)

\* p begins with a separator
LeadingSeparator(p) == p # <<>> /\ (p[1] = 47 \/ p[1] = 92)

\* q is a textual prefix of p
IsPrefix(q, p) == Len(q) <= Len(p) /\ SubSeq(p, 1, Len(q)) = q

\* C3: the normalized path never begins with a drive-letter prefix, never
\* begins with a separator the raw name did not begin with, and joined onto
\* the destination root stays under the destination root's textual prefix.
C3_NormalizedIsRelative ==
    (pc = "returned" /\ Len(args) = 1) =>
        /\ ~HasDrivePrefix(result.clean)
        /\ LeadingSeparator(result.clean) => LeadingSeparator(args[1])
        /\ ~LeadingSeparator(args[1]) => IsPrefix(DestDir \o <<47>>, result.target)

\* ------------------------------------------------- the run's claims: helpers
IsArchiveFailure(l) == l.what \in {"open_err", "index_err"}
IsEntryFailure(l) == l.what \in {"entry_err", "mkdir_err", "create_err", "write_err"}
IsArchiveError(e) == e.stage = ""
IsEntryError(e) == e.stage # ""

\* the index of the archive at position p of zips
IndexOf(p) == archives[zips[p]]

\* the destination path of entry e of the archive at position p
TargetOf(p, e) == Join(DestDir, strip_drive_letter(ReplaceBackslash(IndexOf(p)[e].name)))

\* the error a failure of the log must have left in the error list
ExpectedError(l) ==
    LET n == FileName(zips[l.zi])
        c == strip_drive_letter(ReplaceBackslash(IndexOf(l.zi)[l.ej].name))
    IN  CASE l.what = "entry_err" -> [zip |-> n, stage |-> "entry", detail |-> l.ej]
          [] l.what = "mkdir_err" -> [zip |-> n, stage |-> "mkdir", detail |-> Parent(TargetOf(l.zi, l.ej))]
          [] l.what = "create_err" -> [zip |-> n, stage |-> "create", detail |-> c]
          [] l.what = "write_err" -> [zip |-> n, stage |-> "write", detail |-> c]

\* the successful writes of the log
Written == {k \in DOMAIN log : log[k].what = "written"}

\* C4: an archive that cannot be opened or indexed leaves exactly one error,
\* which names it, none of its entries is touched, and every archive of the
\* list, those behind it included, is still processed; the count at the end is
\* the writes of the other archives.
C4_ArchiveFaultIsolation ==
    LET af == SelectSeq(log, IsArchiveFailure)
        ae == SelectSeq(errors, IsArchiveError)
    IN  /\ Len(ae) = Len(af)
        /\ \A k \in DOMAIN af : ae[k] = [zip |-> FileName(zips[af[k].zi]), stage |-> "", detail |-> <<>>]
        /\ \A k \in DOMAIN log : IsArchiveFailure(log[k]) =>
               \A m \in DOMAIN log \ {k} : log[m].zi # log[k].zi
        /\ pc = "done" => \A p \in 1..Len(zips) : \E k \in DOMAIN log : log[k].zi = p /\ log[k].ej = 0
        /\ pc = "done" => files_extracted = Cardinality(Written)

\* three archives, the second corrupt: the files of one and three, one error
C4_Witness ==
    /\ pc = "done"
    /\ Len(zips) = 3
    /\ \E k \in DOMAIN log : log[k].zi = 2 /\ log[k].what = "index_err"
    /\ errors = <<[zip |-> FileName(zips[2]), stage |-> "", detail |-> <<>>]>>
    /\ \E k \in Written : log[k].zi = 1
    /\ \E k \in Written : log[k].zi = 3
    /\ files_extracted = Cardinality(Written)
    /\ files_extracted >= 2

\* C5: an entry that fails at the entry-read, directory-create, file-create or
\* file-write stage leaves exactly one error with the archive's name and the
\* stage, is not counted, is never attempted again (the attempts of the log strictly
\* advance), and the next entry of the same archive is processed next.
C5_EntryFaultIsolation ==
    LET ef == SelectSeq(log, IsEntryFailure)
        ee == SelectSeq(errors, IsEntryError)
    IN  /\ Len(ee) = Len(ef)
        /\ \A k \in DOMAIN ef : ee[k] = ExpectedError(ef[k])
        /\ \A k \in 1..(Len(log) - 1) :
               \/ log[k].zi < log[k + 1].zi
               \/ log[k].zi = log[k + 1].zi /\ log[k].ej < log[k + 1].ej
        /\ pc = "entry" => count = Cardinality({k \in Written : log[k].zi = i})
        /\ \A k \in DOMAIN log :
               (IsEntryFailure(log[k]) /\ log[k].ej < Len(IndexOf(log[k].zi))) =>
                   IF k < Len(log)
                   THEN log[k + 1].zi = log[k].zi /\ log[k + 1].ej = log[k].ej + 1
                   ELSE pc = "entry" /\ i = log[k].zi /\ j = log[k].ej + 1

\* a failed first entry, then the second entry of the same archive written
C5_Witness ==
    \E k \in DOMAIN log :
        /\ IsEntryFailure(log[k])
        /\ k < Len(log)
        /\ log[k + 1].what = "written"
        /\ log[k + 1].zi = log[k].zi
        /\ Len(errors) = 1
        /\ pc = "done"
        /\ files_extracted = Cardinality(Written)

\* what the open archive has written so far
Pending == IF pc = "entry" THEN count ELSE 0

\* C6: the files-extracted count is the number of successful writes: each adds
\* one, directory entries and failed entries add nothing, the count at the end
\* of the run is the number of writes, and it never decreases.
C6_CountIsWrites ==
    /\ [](files_extracted + Pending = Cardinality(Written))
    /\ [](pc = "done" => files_extracted = Cardinality(Written))
    /\ [][files_extracted' >= files_extracted]_vars

\* a finished run with writes, a skipped directory entry and a failed entry
C6_Witness ==
    /\ pc = "done"
    /\ files_extracted >= 3
    /\ \E k \in DOMAIN log : log[k].what = "dir"
    /\ \E k \in DOMAIN log : IsEntryFailure(log[k])

\* the archive at position p holds a file entry that normalizes to t
Holds(p, t) == \E e \in DOMAIN IndexOf(p) : ~IndexOf(p)[e].is_dir /\ TargetOf(p, e) = t

\* every destination path some archive of the list has a file entry for
AllTargets ==
    {TargetOf(p, e) : <<p, e>> \in {x \in (1..Len(zips)) \X (1..MaxEntries) :
                                       x[2] \in DOMAIN IndexOf(x[1]) /\ ~IndexOf(x[1])[x[2]].is_dir}}

RECURSIVE LastCreatedAt(_, _)
\* the last attempt of log[1..k] that created the file at t, 0 when none did
LastCreatedAt(t, k) ==
    IF k = 0 THEN 0
    ELSE IF log[k].what \in {"written", "write_err"} /\ log[k].target = t THEN k
    ELSE LastCreatedAt(t, k - 1)

\* C7, as first stated: of two archives with entries for the same destination
\* path, the file holds the content of the one later in the sorted list.
C7_LaterArchiveWins ==
    pc = "done" =>
        \A t \in AllTargets : \A p, q \in 1..Len(zips) :
            (p < q /\ Holds(p, t) /\ Holds(q, t) /\ \A r \in (q + 1)..Len(zips) : ~Holds(r, t)) =>
                /\ t \in DOMAIN files
                /\ files[t].zip = zips[q]
                /\ files[t].complete

\* C7: the archives are processed in the order of the naturally sorted list,
\* and every destination file holds the content of the last entry, in that
\* order, whose file was created; so of two archives that wrote the same path
\* the later one's content is there, and an archive that could not be opened
\* or an entry that failed before its file was created leaves the earlier
\* content in place.
C7_LastCreatedWins ==
    /\ \A t \in DOMAIN files :
           LET k == LastCreatedAt(t, Len(log))
           IN  /\ k > 0
               /\ files[t] = [zip |-> zips[log[k].zi], idx |-> log[k].ej,
                              complete |-> log[k].what = "written"]
    /\ \A k \in 1..(Len(log) - 1) : log[k].zi <= log[k + 1].zi
    /\ pc \in {"check", "done"} =>
           \A p, q \in 1..Len(zips) : p < q => cmp_natural(zips[p], zips[q]) # "Greater"
    /\ pc = "done" =>
           \A k, m \in Written :
               ( /\ log[k].zi < log[m].zi
                 /\ log[k].target = log[m].target
                 /\ LastCreatedAt(log[m].target, Len(log)) = m ) =>
                   /\ files[log[m].target].zip = zips[log[m].zi]
                   /\ files[log[m].target].complete

\* two archives wrote the same path; the later one's content is there
C7_Witness ==
    /\ pc = "done"
    /\ \E t \in DOMAIN files : \E k, m \in Written :
           /\ log[k].zi < log[m].zi
           /\ log[k].target = t
           /\ log[m].target = t
           /\ files[t].zip = zips[log[m].zi]
           /\ files[t].zip # zips[log[k].zi]
           /\ files[t].complete

RECURSIVE Components(_, _)
\* the components of the path p, cur being the component read so far
Components(p, cur) ==
    IF p = <<>> THEN (IF cur = <<>> THEN <<>> ELSE <<cur>>)
    ELSE IF Head(p) = 47
         THEN (IF cur = <<>> THEN <<>> ELSE <<cur>>) \o Components(Tail(p), <<>>)
         ELSE Components(Tail(p), Append(cur, Head(p)))

RECURSIVE Resolved(_, _)
\* the components cs applied to the directory at acc, ".." going one up
Resolved(cs, acc) ==
    IF cs = <<>> THEN acc
    ELSE IF Head(cs) = <<46, 46>>
         THEN Resolved(Tail(cs), IF acc = <<>> THEN <<>> ELSE SubSeq(acc, 1, Len(acc) - 1))
         ELSE IF Head(cs) = <<46>> THEN Resolved(Tail(cs), acc)
         ELSE Resolved(Tail(cs), Append(acc, Head(cs)))

\* the file system resolves t to a place at or below root
UnderRoot(t, root) ==
    IsPrefix(Resolved(Components(root, <<>>), <<>>), Resolved(Components(t, <<>>), <<>>))

\* C8: every file written and every directory made lies under the
\* destination root, and nothing under the source root is created or changed.
C8_WritesStayUnderDest ==
    \A t \in (DOMAIN files) \cup dirs :
        UnderRoot(t, DestDir) /\ ~UnderRoot(t, SourceDir)

\* C9, as first stated: whenever extract returns without a fatal error, the
\* destination root exists.
C9_DestRootAlways == pc = "done" => dest_exists

\* C9: given a list with at least one archive, the destination root exists
\* before any archive is processed and when extract returns.
C9_DestRootCreated ==
    /\ (pc = "done" /\ zips # <<>>) => dest_exists
    /\ pc \in {"archive", "entry"} => dest_exists
    /\ log # <<>> => dest_exists

\* a run over a list with archives made the root and returned
C9_Witness ==
    /\ pc = "done"
    /\ zips # <<>>
    /\ dest_exists
    /\ log # <<>>

\* the log visits the archives in list order and each opened archive's
\* entries in index order, each once
InOrder ==
    /\ log # <<>> => (log[1].zi = 1 /\ log[1].ej = 0)
    /\ \A k \in 1..(Len(log) - 1) :
           \/ /\ ~IsArchiveFailure(log[k])
              /\ log[k].ej < Len(IndexOf(log[k].zi))
              /\ log[k + 1].zi = log[k].zi
              /\ log[k + 1].ej = log[k].ej + 1
           \/ /\ IsArchiveFailure(log[k]) \/ log[k].ej = Len(IndexOf(log[k].zi))
              /\ log[k + 1].zi = log[k].zi + 1
              /\ log[k + 1].ej = 0

\* the log reached the last entry of the last archive
Complete ==
    zips # <<>> =>
        /\ log # <<>>
        /\ log[Len(log)].zi = Len(zips)
        /\ IsArchiveFailure(log[Len(log)]) \/ log[Len(log)].ej = Len(IndexOf(Len(zips)))

\* C10: the run terminates; it visits every archive of the sorted list once,
\* in list order, and every entry of every opened archive once, in index
\* order, whatever failed before; it stops early only before the first
\* archive, when the destination root cannot be made (or the listing fails).
C10_RunsToTheEnd ==
    /\ <>(pc \in {"done", "fatal"})
    /\ [](InOrder)
    /\ [](pc = "done" => Complete)
    /\ [](pc = "fatal" => log = <<>>)

\* three archives, two failures, and the run still reached the last entry
C10_Witness ==
    /\ pc = "done"
    /\ Len(zips) = 3
    /\ Len(errors) = 2
    /\ \E k \in DOMAIN log : IsArchiveFailure(log[k]) /\ log[k].zi = 1
    /\ \E k \in DOMAIN log : IsEntryFailure(log[k]) /\ log[k].zi = 2 /\ log[k].ej = 1
    /\ log[Len(log)].zi = 3
    /\ log[Len(log)].ej = Len(IndexOf(3))

====
